---- MODULE Spec2Model ----
(***************************************************************************)
(* Model of the Türkiye AQI dashboard (src/app.py) and its WAQI client     *)
(* (src/aqi_client.py).                                                    *)
(*                                                                         *)
(* One Streamlit session is modelled.  Every rerun of app.py is one        *)
(* RenderCycle step: resolve the token, fetch the selected city through    *)
(* the st.cache_data memo, update the per-city session history, build the  *)
(* trend frame and the colours.  Wall-clock time advances with Tick.       *)
(*                                                                         *)
(* Times are integers in seconds.  A naive local datetime is the integer   *)
(* number of seconds of its wall-clock reading.  Floats (coordinates,      *)
(* concentrations) are integers.  Turkish labels are transliterated.       *)
(***************************************************************************)
EXTENDS Integers, Sequences, FiniteSets, TLC

VARIABLES
    environ,        \* os.environ, restricted to the WAQI_TOKEN variable
    secrets,        \* st.secrets: [file |-> is there a secrets file, store |-> its keys]
    now,            \* wall clock read by the st.cache_data memo
    cache,          \* st.cache_data memo of fetch_live: city_id -> [val, at]
    fetched,        \* history: city_id -> last reading a network call returned, and when
    session_state,  \* st.session_state: "history_<city_id>" -> list of {ts, aqi}
    out,            \* what the last rerun of app.py put on the page
    call,           \* history: what the last rerun's fetch_live call did
    probe           \* unit harness: one function, its input and, once applied, its result

vars == <<environ, secrets, now, cache, fetched, session_state, out, call, probe>>

----------------------------------------------------------------------------
(* Bounds of the model *)

Tick == 300             \* the clock advances in steps of Tick seconds
MaxTime == 1200         \* the session is observed for MaxTime seconds
ProbeMax == 502         \* aqi_color is probed on 0..ProbeMax and on BigIndex

(* Program constants *)

CACHE_TTL == 600
Periods == 24
Hour == 3600
BigIndex == 10000
ScaleMax == 500

(* The host's time zone: before DstEnd the zone is on summer time, DstShift *)
(* seconds ahead of the offset that applies from DstEnd on.  A host without *)
(* daylight saving is the case where every timestamp served is >= DstEnd.   *)
DstEnd == 7200
DstShift == 3600

None == [k \in {} |-> ""]

Put(f, k, v) == [x \in (DOMAIN f) \cup {k} |-> IF x = k THEN v ELSE f[x]]

Min(S) == CHOOSE x \in S : \A y \in S : x <= y

----------------------------------------------------------------------------
(* src/app.py: configuration *)

City == {"antalya", "mugla"}

COLORS == <<
    [low |-> 0,   high |-> 50,  clr |-> "#009966", name |-> "Iyi"],
    [low |-> 51,  high |-> 100, clr |-> "#ffde33", name |-> "Orta"],
    [low |-> 101, high |-> 150, clr |-> "#ff9933", name |-> "Duyarli"],
    [low |-> 151, high |-> 200, clr |-> "#cc0033", name |-> "Sagliksiz"],
    [low |-> 201, high |-> 300, clr |-> "#660099", name |-> "Cok Sagliksiz"],
    [low |-> 301, high |-> 500, clr |-> "#7e0023", name |-> "Tehlikeli"] >>

(* Mutant: the lower bound of a band is taken as exclusive. *)
aqi_color_strict_low(val) ==
    LET hits == {i \in 1..Len(COLORS) : COLORS[i].low < val /\ val <= COLORS[i].high}
    IN  IF hits = {} THEN "#7e0023" ELSE COLORS[Min(hits)].clr

(* The first band, in table order, that contains val; else the fixed colour. *)
aqi_color(val) ==
    LET hits == {i \in 1..Len(COLORS) : COLORS[i].low <= val /\ val <= COLORS[i].high}
    IN  IF hits = {} THEN "#7e0023" ELSE COLORS[Min(hits)].clr

----------------------------------------------------------------------------
(* src/aqi_client.py: _get_token *)

EnvironStates == { None, [WAQI_TOKEN |-> ""], [WAQI_TOKEN |-> "tokE"] }

SecretsStates == {
    [file |-> FALSE, store |-> None],
    [file |-> TRUE,  store |-> None],
    [file |-> TRUE,  store |-> [WAQI_TOKEN |-> ""]],
    [file |-> TRUE,  store |-> [WAQI_TOKEN |-> "tokS"]] }

NotFound == "WAQI_TOKEN not found in environment variables or Streamlit secrets"

(* Mutant: the environment value is tested with "is not None". *)
_get_token_is_not_none(env, sec) ==
    IF "WAQI_TOKEN" \in DOMAIN env
    THEN [kind |-> "return", value |-> env["WAQI_TOKEN"], consulted |-> FALSE]
    ELSE IF sec.file /\ "WAQI_TOKEN" \in DOMAIN sec.store
         THEN [kind |-> "return", value |-> sec.store["WAQI_TOKEN"], consulted |-> TRUE]
         ELSE [kind |-> "raise", e |-> [exc |-> "RuntimeError", msg |-> NotFound],
               consulted |-> TRUE]

(* os.getenv gives None for an unset variable; "if token" is false for None *)
(* and for the empty string.  consulted records that the try block, which   *)
(* reads st.secrets, was entered.                                           *)
_get_token(env, sec) ==
    IF "WAQI_TOKEN" \in DOMAIN env /\ env["WAQI_TOKEN"] # ""
    THEN [kind |-> "return", value |-> env["WAQI_TOKEN"], consulted |-> FALSE]
    ELSE IF sec.file /\ "WAQI_TOKEN" \in DOMAIN sec.store
         THEN [kind |-> "return", value |-> sec.store["WAQI_TOKEN"], consulted |-> TRUE]
         ELSE [kind |-> "raise", e |-> [exc |-> "RuntimeError", msg |-> NotFound],
               consulted |-> TRUE]

----------------------------------------------------------------------------
(* The WAQI feed: what requests.get(url, timeout=10) can come back with *)

TimeVals == {3600, 5400, 7200}
AqiVals == {42, 180}
GeoVals == { <<36, 30>>, <<41, 28>> }
IaqiVals == { [pm25 |-> [v |-> 12], o3 |-> [v |-> 7]], [PM10 |-> [v |-> 30]] }

Feed(t, a, g) ==
    [status |-> "ok",
     data |-> [time |-> [v |-> t], aqi |-> a, city |-> [geo |-> g]]]

FeedIaqi(t, a, g, q) ==
    [status |-> "ok",
     data |-> [time |-> [v |-> t], aqi |-> a, city |-> [geo |-> g], iaqi |-> q]]

ValidPayloads ==
    {Feed(t, 180, g) : t \in TimeVals, g \in GeoVals}
    \cup {FeedIaqi(t, 42, g, q) : t \in TimeVals, g \in GeoVals, q \in IaqiVals}

RejectedPayloads == { [status |-> "error", data |-> "Invalid key"],
                      [status |-> "error", data |-> "Unknown station"],
                      [status |-> "nope"] }

MalformedPayloads == {
    [status |-> "ok", data |-> [aqi |-> 42, city |-> [geo |-> <<36, 30>>]]],
    [status |-> "ok", data |-> [time |-> [v |-> 3600], city |-> [geo |-> <<36, 30>>]]],
    [status |-> "ok", data |-> [time |-> [v |-> 3600], aqi |-> 42]],
    [status |-> "ok"],
    [message |-> "maintenance"] }

Responses ==
    { [net |-> "timeout"], [net |-> "refused"] }
    \cup { [net |-> "ok", code |-> 500, body |-> [status |-> "error"]],
           [net |-> "ok", code |-> 404, body |-> [status |-> "error", data |-> "Unknown station"]],
           [net |-> "ok", code |-> 403, body |-> Feed(3600, 42, <<36, 30>>)] }
    \cup { [net |-> "ok", code |-> 200, body |-> b] :
             b \in ValidPayloads \cup RejectedPayloads \cup MalformedPayloads }

(* What the feed answers during the session: a sample of Responses. *)
Upstream ==
    { [net |-> "timeout"],
      [net |-> "ok", code |-> 500, body |-> [status |-> "error"]],
      [net |-> "ok", code |-> 200, body |-> [status |-> "error", data |-> "Invalid key"]],
      [net |-> "ok", code |-> 200,
       body |-> [status |-> "ok", data |-> [time |-> [v |-> 3600], aqi |-> 42]]],
      [net |-> "ok", code |-> 200, body |-> FeedIaqi(3600, 42, <<36, 30>>,
                                                     [pm25 |-> [v |-> 12], o3 |-> [v |-> 7]])],
      [net |-> "ok", code |-> 200, body |-> Feed(3600, 180, <<36, 30>>)],
      [net |-> "ok", code |-> 200, body |-> Feed(5400, 180, <<36, 30>>)],
      [net |-> "ok", code |-> 200, body |-> FeedIaqi(7200, 42, <<36, 30>>,
                                                     [PM10 |-> [v |-> 30]])] }

(* Where the token of the session comes from: a sample of the combinations *)
(* of EnvironStates and SecretsStates.                                      *)
Hosts ==
    { <<[WAQI_TOKEN |-> "tokE"], [file |-> FALSE, store |-> None]>>,
      <<[WAQI_TOKEN |-> ""], [file |-> TRUE, store |-> [WAQI_TOKEN |-> "tokS"]]>>,
      <<None, [file |-> TRUE, store |-> None]>> }

Raise(e) == [kind |-> "raise", e |-> e]
Return(v) == [kind |-> "return", value |-> v]

(* str(data.get("data")) *)
str_data(data) == IF "data" \in DOMAIN data THEN data.data ELSE "None"

(* Mutant: the rejection carries the status word, not the data detail. *)
fetch_aqi_status_as_detail(resp) ==
    IF resp.net # "ok" THEN Raise([exc |-> "ConnectionError", cause |-> resp.net])
    ELSE IF resp.code >= 400 /\ resp.code < 600
         THEN Raise([exc |-> "HTTPError", code |-> resp.code])
         ELSE LET data == resp.body
              IN  IF "status" \notin DOMAIN data
                  THEN Raise([exc |-> "KeyError", key |-> "status"])
                  ELSE IF data.status # "ok"
                       THEN Raise([exc |-> "RuntimeError", msg |-> data.status])
                       ELSE Return(data)

(* resp is the outcome of requests.get(url, timeout=10). *)
fetch_aqi(resp) ==
    IF resp.net # "ok" THEN Raise([exc |-> "ConnectionError", cause |-> resp.net])
    ELSE IF resp.code >= 400 /\ resp.code < 600
         THEN Raise([exc |-> "HTTPError", code |-> resp.code])
         ELSE LET data == resp.body
              IN  IF "status" \notin DOMAIN data
                  THEN Raise([exc |-> "KeyError", key |-> "status"])
                  ELSE IF data.status # "ok"
                       THEN Raise([exc |-> "RuntimeError", msg |-> str_data(data)])
                       ELSE Return(data)

----------------------------------------------------------------------------
(* src/app.py: fetch_live *)

(* datetime.fromtimestamp(v): the naive local time of the epoch second v. *)
fromtimestamp(v) == IF v < DstEnd THEN v + DstShift ELSE v

(* str.upper on the pollutant codes the feed uses *)
upper(k) ==
    CASE k = "pm25" -> "PM25"
      [] k = "pm10" -> "PM10"
      [] k = "o3"   -> "O3"
      [] k = "no2"  -> "NO2"
      [] OTHER      -> k

(* Mutant: the pollutant codes are kept as the feed spells them. *)
comps_of_keep_case(data) ==
    LET iaqi == IF "iaqi" \in DOMAIN data THEN data.iaqi ELSE None
    IN  [k \in DOMAIN iaqi |-> iaqi[k].v]

(* {k.upper(): v["v"] for k, v in raw["data"].get("iaqi", {}).items()} *)
(* The payloads of the model have no two codes with the same upper case. *)
comps_of(data) ==
    LET iaqi == IF "iaqi" \in DOMAIN data THEN data.iaqi ELSE None
    IN  [K \in {upper(k) : k \in DOMAIN iaqi} |->
            iaqi[CHOOSE k \in DOMAIN iaqi : upper(k) = K].v]

(* Lines 58-62 of fetch_live: the reading of a payload fetch_aqi returned. *)
(* A subscript on a missing key raises KeyError, in the order of the lines. *)
normalize(raw) ==
    IF "data" \notin DOMAIN raw THEN Raise([exc |-> "KeyError", key |-> "data"])
    ELSE LET data == raw.data
         IN  IF "time" \notin DOMAIN data THEN Raise([exc |-> "KeyError", key |-> "time"])
             ELSE IF "aqi" \notin DOMAIN data THEN Raise([exc |-> "KeyError", key |-> "aqi"])
             ELSE IF "city" \notin DOMAIN data THEN Raise([exc |-> "KeyError", key |-> "city"])
             ELSE Return([ts |-> fromtimestamp(data.time.v), aqi |-> data.aqi,
                          comps |-> comps_of(data),
                          lat |-> data.city.geo[1], lon |-> data.city.geo[2]])

(* The body of fetch_live, without the memo. *)
fetch_live_body(resp) ==
    LET r == fetch_aqi(resp)
    IN  IF r.kind = "raise" THEN r ELSE normalize(r.value)

(* Mutant: the memo entry is dropped after half the interval. *)
fresh_half_ttl(entry, t) == t - entry.at < CACHE_TTL \div 2

(* st.cache_data(ttl=CACHE_TTL): an entry stored at entry.at is served while *)
(* the clock is before entry.at + ttl.                                       *)
fresh(entry, t) == t - entry.at < CACHE_TTL

(* Mutant: the memo ignores the argument of fetch_live. *)
cache_key_constant(city_id) == "fetch_live"

(* The memo key: the arguments of fetch_live, that is city_id. *)
cache_key(city_id) == city_id

(* fetch_live(city_id) through the memo.  Only a returned value is stored; *)
(* an exception is not.                                                    *)
fetch_live(memo, t, city_id, resp) ==
    LET key == cache_key(city_id)
    IN  IF key \in DOMAIN memo /\ fresh(memo[key], t)
        THEN [kind |-> "return", value |-> memo[key].val, net |-> FALSE, memo |-> memo]
        ELSE LET r == fetch_live_body(resp)
             IN  IF r.kind = "raise"
                 THEN [kind |-> "raise", e |-> r.e, net |-> TRUE, memo |-> memo]
                 ELSE [kind |-> "return", value |-> r.value, net |-> TRUE,
                       memo |-> Put(memo, key, [val |-> r.value, at |-> t])]

----------------------------------------------------------------------------
(* src/app.py: the script body after the fetch *)

key_hist(city_id) == city_id

Entry(ts, aqi) == [ts |-> ts, aqi |-> aqi]

(* Mutant: every reading is appended. *)
history_append_always(history, ts, aqi) == Append(history, Entry(ts, aqi))

(* Mutant: the duplicate test compares the index value. *)
history_append_by_aqi(history, ts, aqi) ==
    IF history = <<>> \/ history[Len(history)].aqi # aqi
    THEN Append(history, Entry(ts, aqi))
    ELSE history

(* Mutant: a new reading replaces the list. *)
history_append_reset(history, ts, aqi) ==
    IF history = <<>> \/ history[Len(history)].ts # ts
    THEN <<Entry(ts, aqi)>>
    ELSE history

(* if not history or history[-1]["ts"] != ts: history.append(...) *)
history_append(history, ts, aqi) ==
    IF history = <<>> \/ history[Len(history)].ts # ts
    THEN Append(history, Entry(ts, aqi))
    ELSE history

(* pd.date_range(end=ts, periods=24, freq="h") with the scalar aqi *)
flat_fill(ts, aqi) ==
    [i \in 1..Periods |-> Entry(ts - (Periods - i) * Hour, aqi)]

(* Mutant: the flat fill is used only for an empty frame. *)
hist_df_only_empty(history, ts, aqi) ==
    IF Len(history) < 1 THEN flat_fill(ts, aqi) ELSE history

(* hist_df: the history frame, or the flat fill when it has under 2 rows *)
hist_df(history, ts, aqi) ==
    IF Len(history) < 2 THEN flat_fill(ts, aqi) ELSE history

(* Mutant: a failed fetch is shown as a reading of zero. *)
api_error_default_reading(ss, city_id, e) ==
    LET k == key_hist(city_id)
        history == history_append(IF k \in DOMAIN ss THEN ss[k] ELSE <<>>, 0, 0)
    IN  [session_state |-> Put(ss, k, history),
         out |-> [kind |-> "ok", city |-> city_id,
                  ts |-> 0, aqi |-> 0, comps |-> None, warn |-> FALSE,
                  hist_df |-> hist_df(history, 0, 0),
                  gauge |-> aqi_color(0),
                  marker |-> [lat |-> 0, lon |-> 0, color |-> aqi_color(0)]]]

(* except Exception as e: st.error(...); st.stop() *)
api_error(ss, city_id, e) ==
    [session_state |-> ss,
     out |-> [kind |-> "error", city |-> city_id, e |-> e]]

(* Lines 98-190: sidebar, session history, trend frame, KPI, gauge, map. *)
render(ss, city_id, token, reading) ==
    LET k == key_hist(city_id)
        history == history_append(IF k \in DOMAIN ss THEN ss[k] ELSE <<>>,
                                  reading.ts, reading.aqi)
    IN  [session_state |-> Put(ss, k, history),
         out |-> [kind |-> "ok", city |-> city_id,
                  ts |-> reading.ts, aqi |-> reading.aqi, comps |-> reading.comps,
                  warn |-> (token = ""),
                  hist_df |-> hist_df(history, reading.ts, reading.aqi),
                  gauge |-> aqi_color(reading.aqi),
                  marker |-> [lat |-> reading.lat, lon |-> reading.lon,
                              color |-> aqi_color(reading.aqi)]]]

----------------------------------------------------------------------------
(* The session *)

Idle == [kind |-> "idle"]
NoCall == [result |-> "none"]
NoProbe == [fn |-> "none"]

Init ==
    /\ \E host \in Hosts : environ = host[1] /\ secrets = host[2]
    /\ now = 0
    /\ cache = None
    /\ fetched = None
    /\ session_state = None
    /\ out = Idle
    /\ call = NoCall
    /\ probe = NoProbe

(* One rerun of app.py with city_id selected; resp is what the feed answers *)
(* if this rerun reaches the network.                                       *)
RenderCycle ==
    \E city_id \in City, resp \in Upstream :
        LET tok == _get_token(environ, secrets)
        IN  /\ IF tok.kind = "raise"
               THEN /\ out' = [kind |-> "uncaught", e |-> tok.e]
                    /\ call' = NoCall
                    /\ UNCHANGED <<cache, fetched, session_state>>
               ELSE LET live == fetch_live(cache, now, city_id, resp)
                        page == IF live.kind = "raise"
                                THEN api_error(session_state, city_id, live.e)
                                ELSE render(session_state, city_id, tok.value, live.value)
                    IN  /\ cache' = live.memo
                        /\ call' = [result |-> live.kind, city |-> city_id, net |-> live.net]
                        /\ fetched' = IF live.kind = "return" /\ live.net
                                      THEN Put(fetched, city_id,
                                               [val |-> live.value, at |-> now])
                                      ELSE fetched
                        /\ session_state' = page.session_state
                        /\ out' = page.out
            /\ UNCHANGED <<environ, secrets, now, probe>>

(* Time passes between reruns. *)
TickClock ==
    /\ now + Tick <= MaxTime
    /\ now' = now + Tick
    /\ UNCHANGED <<environ, secrets, cache, fetched, session_state, out, call, probe>>

Next == RenderCycle \/ TickClock

Spec == Init /\ [][Next]_vars

----------------------------------------------------------------------------
(* Unit harness: each function applied to one input drawn from its domain *)

ColorProbes ==
    {[fn |-> "aqi_color", val |-> v, done |-> FALSE] : v \in (0..ProbeMax) \cup {BigIndex}}
TokenProbes ==
    {[fn |-> "_get_token", env |-> e, sec |-> s, done |-> FALSE] :
        e \in EnvironStates, s \in SecretsStates}
FetchProbes ==
    {[fn |-> "fetch_aqi", resp |-> r, done |-> FALSE] : r \in Responses}
LiveProbes ==
    {[fn |-> "fetch_live", city |-> c, resp |-> r, done |-> FALSE] :
        c \in City, r \in Responses}

InitFn ==
    /\ environ = None
    /\ secrets = [file |-> FALSE, store |-> None]
    /\ now = 0
    /\ cache = None
    /\ fetched = None
    /\ session_state = None
    /\ out = Idle
    /\ call = NoCall
    /\ \/ probe \in ColorProbes
       \/ probe \in TokenProbes
       \/ probe \in FetchProbes
       \/ probe \in LiveProbes

Frame == UNCHANGED <<environ, secrets, now, cache, fetched, session_state, out, call>>

Call_aqi_color ==
    /\ probe.fn = "aqi_color" /\ ~probe.done
    /\ probe' = [fn |-> "aqi_color", val |-> probe.val, done |-> TRUE,
                 res |-> aqi_color(probe.val)]
    /\ Frame

Call_get_token ==
    /\ probe.fn = "_get_token" /\ ~probe.done
    /\ probe' = [fn |-> "_get_token", env |-> probe.env, sec |-> probe.sec, done |-> TRUE,
                 res |-> _get_token(probe.env, probe.sec)]
    /\ Frame

Call_fetch_aqi ==
    /\ probe.fn = "fetch_aqi" /\ ~probe.done
    /\ probe' = [fn |-> "fetch_aqi", resp |-> probe.resp, done |-> TRUE,
                 res |-> fetch_aqi(probe.resp)]
    /\ Frame

(* fetch_live on an empty memo *)
Call_fetch_live ==
    /\ probe.fn = "fetch_live" /\ ~probe.done
    /\ probe' = [fn |-> "fetch_live", city |-> probe.city, resp |-> probe.resp,
                 done |-> TRUE,
                 res |-> fetch_live(None, now, probe.city, probe.resp)]
    /\ Frame

NextFn == Call_aqi_color \/ Call_get_token \/ Call_fetch_aqi \/ Call_fetch_live

SpecFn == InitFn /\ [][NextFn]_vars

----------------------------------------------------------------------------
(* Properties *)

Ledger(ss, c) == IF key_hist(c) \in DOMAIN ss THEN ss[key_hist(c)] ELSE <<>>

(* A step of RenderCycle: the clock stands still. *)
Rerun == now' = now

Fetching(c) == Rerun /\ call'.result # "none" /\ call'.city = c

Shown(o) == [ts |-> o.ts, aqi |-> o.aqi, comps |-> o.comps,
             lat |-> o.marker.lat, lon |-> o.marker.lon]

DataFields == {"ts", "aqi", "comps", "hist_df", "gauge", "marker"}

IsPrefix(s, t) == Len(s) <= Len(t) /\ \A i \in 1..Len(s) : s[i] = t[i]

(* C1, as claimed: in every reachable state no history list of a city holds *)
(* two entries with the same ts.                                            *)
C1_NoDuplicateTs ==
    \A k \in DOMAIN session_state :
        \A i, j \in 1..Len(session_state[k]) :
            i # j => session_state[k][i].ts # session_state[k][j].ts

(* C1, amended: in every reachable state no history list of a city holds *)
(* two consecutive entries with the same ts.                             *)
C1_NoAdjacentDuplicateTs ==
    \A k \in DOMAIN session_state :
        \A i \in 1..(Len(session_state[k]) - 1) :
            session_state[k][i].ts # session_state[k][i + 1].ts

(* C1 witness: a timestamp has come back after a different one, and the *)
(* list holds it twice, not next to each other.                         *)
C1_Witness ==
    \E k \in DOMAIN session_state :
        /\ Len(session_state[k]) = 3
        /\ session_state[k][1].ts = session_state[k][3].ts
        /\ session_state[k][1].ts # session_state[k][2].ts

(* C2: a rerun whose fetch returned the reading (ts, aqi) leaves the list of *)
(* the selected city as it was when the list is non-empty and its last entry *)
(* has that ts, and otherwise makes it the old list with (ts, aqi) appended. *)
C2_AppendOrNoop ==
    [][ (Rerun /\ call'.result = "return") =>
          LET c == call'.city
              old == Ledger(session_state, c)
          IN  /\ out'.kind = "ok" /\ out'.city = c
              /\ key_hist(c) \in DOMAIN session_state'
              /\ session_state'[key_hist(c)] =
                    IF old # <<>> /\ old[Len(old)].ts = out'.ts
                    THEN old
                    ELSE old \o << [ts |-> out'.ts, aqi |-> out'.aqi] >> ]_vars

(* C2 witness: a reading fetched from the network has the ts of the last *)
(* entry and another index value, and the list holds the one first entry. *)
C2_Witness ==
    /\ out.kind = "ok" /\ call.result = "return" /\ call.net
    /\ LET h == Ledger(session_state, out.city)
       IN  Len(h) = 1 /\ h[1].ts = out.ts /\ h[1].aqi # out.aqi

(* C3: a rerun for a city whose last network fetch returned less than      *)
(* CACHE_TTL ago makes no network call and shows the reading of that fetch; *)
(* a rerun that makes a network call has no such fetch for its city; and a  *)
(* reading shown without a network call is the one last fetched for the     *)
(* same city, less than CACHE_TTL ago.                                      *)
C3_MemoWindow ==
    [][ \A c \in City : Fetching(c) =>
          LET inWindow == c \in DOMAIN fetched /\ now - fetched[c].at < CACHE_TTL
          IN  /\ inWindow => /\ ~call'.net
                             /\ call'.result = "return"
                             /\ out'.kind = "ok"
                             /\ Shown(out') = fetched[c].val
                             /\ fetched' = fetched
              /\ call'.net => ~inWindow
              /\ (~call'.net /\ call'.result = "return") => inWindow ]_vars

(* C3 witness: a reading shown from the memo after the clock has advanced, *)
(* while the other city has been fetched too.                               *)
C3_Witness ==
    /\ call.result = "return" /\ ~call.net
    /\ out.kind = "ok"
    /\ now > fetched[call.city].at
    /\ \E c \in DOMAIN fetched : c # call.city

(* C4: a rerun whose fetch_live call raised leaves session_state as it was *)
(* and shows the error report, with no reading, series, colour or marker.  *)
C4_FailedFetchShowsNothing ==
    [][ (Rerun /\ call'.result = "raise") =>
          /\ session_state' = session_state
          /\ out'.kind = "error"
          /\ out'.e.exc \in {"ConnectionError", "HTTPError", "RuntimeError", "KeyError"}
          /\ DOMAIN out' \cap DataFields = {} ]_vars

(* C4 witness: the fetch raised on a payload without a required field, for *)
(* a city whose list already holds an entry.                               *)
C4_Witness ==
    /\ call.result = "raise" /\ out.kind = "error"
    /\ out.e.exc = "KeyError"
    /\ Ledger(session_state, call.city) # <<>>

(* C6: after a rerun that shows a reading, the trend frame is the history *)
(* list of the city exactly when the list has two or more entries, and    *)
(* otherwise Periods hourly points ending at the reading's ts, all at the *)
(* reading's index value.                                                 *)
C6_Bootstrapped ==
    out.kind = "ok" =>
        LET h == Ledger(session_state, out.city)
            d == out.hist_df
        IN  /\ Len(h) >= 1
            /\ Len(h) >= 2 => d = h
            /\ Len(h) < 2 =>
                 /\ d # h
                 /\ Len(d) = Periods
                 /\ d[Periods].ts = out.ts
                 /\ \A i \in 1..Periods : d[i].aqi = out.aqi
                 /\ \A i \in 1..(Periods - 1) : d[i + 1].ts - d[i].ts = Hour

(* C6 witness: the frame shown is a list of two entries, while the other *)
(* city's list still has one.                                            *)
C6_Witness ==
    /\ out.kind = "ok"
    /\ Len(Ledger(session_state, out.city)) = 2
    /\ out.hist_df = Ledger(session_state, out.city)
    /\ \E c \in City : Len(Ledger(session_state, c)) = 1

(* C10: every step leaves the list of every city other than the selected  *)
(* one as it was (a missing key stays missing), and leaves the list of the *)
(* selected city as it was or with one entry added at its end.             *)
C10_AppendOnlyFrame ==
    [][ \A c \in City :
          LET old == Ledger(session_state, c)
              new == Ledger(session_state', c)
          IN  /\ IsPrefix(old, new)
              /\ Len(new) <= Len(old) + 1
              /\ key_hist(c) \in DOMAIN session_state => key_hist(c) \in DOMAIN session_state'
              /\ ~Fetching(c) =>
                    /\ new = old
                    /\ key_hist(c) \in DOMAIN session_state' =>
                           key_hist(c) \in DOMAIN session_state ]_vars

(* C10 witness: the selected city's list has grown to two entries beside *)
(* the two entries of the other city, and one list was shown as flat fill. *)
C10_Witness ==
    /\ out.kind = "ok"
    /\ \A c \in City : Len(Ledger(session_state, c)) = 2
    /\ \E c \in City : Ledger(session_state, c)[1].ts # Ledger(session_state, out.city)[1].ts

----------------------------------------------------------------------------
(* Properties of the functions, under SpecFn *)

Applied(f) == probe.fn = f /\ probe.done

BandsOf(v) == {i \in 1..Len(COLORS) : COLORS[i].low <= v /\ v <= COLORS[i].high}

Good == "#009966"
Moderate == "#ffde33"
Hazardous == "#7e0023"

(* C5: for an index in 0..ScaleMax exactly one band of COLORS contains it *)
(* and aqi_color gives that band's colour; the bands are 0-50, 51-100,    *)
(* 101-150, 151-200, 201-300, 301-500 in this order; above ScaleMax       *)
(* aqi_color gives the colour of the last band.                           *)
C5_Classify ==
    Applied("aqi_color") =>
        LET v == probe.val
            res == probe.res
        IN  /\ (v >= 0 /\ v <= ScaleMax) =>
                  /\ Cardinality(BandsOf(v)) = 1
                  /\ \A i \in BandsOf(v) : res = COLORS[i].clr
            /\ (0 <= v /\ v <= 50) => res = Good
            /\ (51 <= v /\ v <= 100) => res = Moderate
            /\ (101 <= v /\ v <= 150) => res = COLORS[3].clr
            /\ (151 <= v /\ v <= 200) => res = COLORS[4].clr
            /\ (201 <= v /\ v <= 300) => res = COLORS[5].clr
            /\ (301 <= v /\ v <= ScaleMax) => res = Hazardous
            /\ v > ScaleMax =>
                  (BandsOf(v) = {} /\ res = Hazardous /\ res = COLORS[Len(COLORS)].clr)

(* C5 witness: aqi_color applied to the index above every band *)
C5_Witness == Applied("aqi_color") /\ probe.val = BigIndex /\ probe.res = Hazardous

Transported(r) == r.net = "ok" /\ ~(r.code >= 400 /\ r.code < 600)

(* C7: fetch_aqi returns only the payload of a response that came through *)
(* with status "ok"; a payload that came through with another status      *)
(* raises RuntimeError with the payload's data as message; a response     *)
(* that did not come through raises an error that is not RuntimeError.    *)
C7_FetchAqi ==
    Applied("fetch_aqi") =>
        LET r == probe.resp
            res == probe.res
        IN  /\ res.kind = "return" =>
                  /\ Transported(r)
                  /\ "status" \in DOMAIN r.body /\ r.body.status = "ok"
                  /\ res.value = r.body
            /\ (Transported(r) /\ "status" \in DOMAIN r.body /\ r.body.status = "ok")
                  => res.kind = "return"
            /\ (Transported(r) /\ "status" \in DOMAIN r.body /\ r.body.status # "ok") =>
                  /\ res.kind = "raise"
                  /\ res.e.exc = "RuntimeError"
                  /\ "data" \in DOMAIN r.body => res.e.msg = r.body.data
            /\ ~Transported(r) =>
                  /\ res.kind = "raise"
                  /\ res.e.exc \in {"ConnectionError", "HTTPError"}
                  /\ res.e.exc # "RuntimeError"

(* C7 witness: a rejection on HTTP 200 that carries the provider's detail *)
C7_Witness ==
    /\ Applied("fetch_aqi")
    /\ probe.resp.net = "ok" /\ probe.resp.code = 200
    /\ probe.res.kind = "raise" /\ probe.res.e.exc = "RuntimeError"
    /\ probe.res.e.msg = "Invalid key"

EnvPresent(env) == "WAQI_TOKEN" \in DOMAIN env
EnvSet(env) == EnvPresent(env) /\ env["WAQI_TOKEN"] # ""
SecretsHave(sec) == sec.file /\ "WAQI_TOKEN" \in DOMAIN sec.store
ConfigurationError(res) ==
    res.kind = "raise" /\ res.e = [exc |-> "RuntimeError", msg |-> NotFound]

(* C8, as claimed: a present environment variable is returned verbatim and *)
(* the secrets are not consulted; an absent one gives the secrets value    *)
(* when the secrets have the key, and the configuration error otherwise.   *)
C8_PresentEnvWins ==
    Applied("_get_token") =>
        LET env == probe.env
            sec == probe.sec
            res == probe.res
        IN  /\ EnvPresent(env) =>
                  res.kind = "return" /\ res.value = env["WAQI_TOKEN"] /\ ~res.consulted
            /\ (~EnvPresent(env) /\ SecretsHave(sec)) =>
                  res.kind = "return" /\ res.value = sec.store["WAQI_TOKEN"]
            /\ (~EnvPresent(env) /\ ~SecretsHave(sec)) => ConfigurationError(res)

(* C8, amended: an environment variable that is present and not empty is  *)
(* returned verbatim and the secrets are not consulted; when it is absent *)
(* or empty the secrets value is returned if the secrets have the key,    *)
(* and the configuration error is raised otherwise.                       *)
C8_NonEmptyEnvWins ==
    Applied("_get_token") =>
        LET env == probe.env
            sec == probe.sec
            res == probe.res
        IN  /\ EnvSet(env) =>
                  res.kind = "return" /\ res.value = env["WAQI_TOKEN"] /\ ~res.consulted
            /\ (~EnvSet(env) /\ SecretsHave(sec)) =>
                  /\ res.kind = "return" /\ res.value = sec.store["WAQI_TOKEN"]
                  /\ res.consulted
            /\ (~EnvSet(env) /\ ~SecretsHave(sec)) =>
                  ConfigurationError(res) /\ res.consulted

(* C8 witness: the variable is set to the empty string and the token of *)
(* the secrets is returned.                                             *)
C8_Witness ==
    /\ Applied("_get_token")
    /\ EnvPresent(probe.env) /\ ~EnvSet(probe.env)
    /\ probe.res.kind = "return" /\ probe.res.value = "tokS"

UpperCodes == {"PM25", "PM10", "O3", "NO2"}
Spelt(K) == IF K = "PM25" THEN {"pm25", "PM25"}
            ELSE IF K = "PM10" THEN {"pm10", "PM10"}
            ELSE IF K = "O3" THEN {"o3", "O3"}
            ELSE {"no2", "NO2"}

(* C9: for a response that came through with a payload of ValidPayloads,  *)
(* fetch_live returns a reading whose comps has one key per pollutant     *)
(* code of the payload, in upper case, with the payload's value; whose    *)
(* aqi, lat and lon are the payload's; and whose comps is empty when the  *)
(* payload has no iaqi.                                                   *)
C9_Normalize ==
    (Applied("fetch_live") /\ Transported(probe.resp)
        /\ probe.resp.body \in ValidPayloads) =>
        LET data == probe.resp.body.data
            res == probe.res
            codes == IF "iaqi" \in DOMAIN data THEN DOMAIN data.iaqi ELSE {}
        IN  /\ res.kind = "return"
            /\ DOMAIN res.value.comps \subseteq UpperCodes
            /\ Cardinality(DOMAIN res.value.comps) = Cardinality(codes)
            /\ \A K \in DOMAIN res.value.comps :
                  \E k \in codes \cap Spelt(K) : res.value.comps[K] = data.iaqi[k].v
            /\ res.value.aqi = data.aqi
            /\ <<res.value.lat, res.value.lon>> = data.city.geo
            /\ "iaqi" \notin DOMAIN data => DOMAIN res.value.comps = {}

(* C9 witness: a payload with lower-case codes has been normalized *)
C9_Witness ==
    /\ Applied("fetch_live") /\ probe.res.kind = "return"
    /\ "iaqi" \in DOMAIN probe.resp.body.data
    /\ "pm25" \in DOMAIN probe.resp.body.data.iaqi
    /\ probe.res.value.comps["PM25"] = 12

====
